---------------------------- MODULE Spec2Model ----------------------------
(***************************************************************************)
(* PopcornPicker: the content-based recommender (utils/helpers.py and the  *)
(* Recommendations page), the preference filter, the aggregator            *)
(* get_personalized_recommendations and the SQLite store it reads          *)
(* (utils/database.py).                                                    *)
(*                                                                         *)
(* Conventions of the model                                                *)
(*  - a DataFrame is a sequence of records (its rows, in row order);       *)
(*    row positions are 1-based here and 0-based in the code, so the       *)
(*    Python slice s[1:n+1] is SubSeq(s, 2, n+1);                          *)
(*  - a float with one decimal (IMDB_Rating, min_rating) is the integer    *)
(*    number of tenths: 8.8 is 88;                                         *)
(*  - a str that the code searches with `in` (Genre) is a sequence of      *)
(*    one-character strings; a str that is only compared is a TLA+ string; *)
(*  - what a call returns is [raised, rows, columns]: the exception it    *)
(*    raised ("none" when it returned), the rows of the DataFrame it       *)
(*    returned, and whether that DataFrame still has the catalog's columns *)
(*    (pd.DataFrame() has none, and a frame indexed with an empty         *)
(*    non-boolean Series has none).                                        *)
(***************************************************************************)
EXTENDS Integers, Sequences, FiniteSets, TLC

VARIABLES
    df,             \* the DataFrame the operation under study receives
    users,          \* table users: id -> row
    watch_history,  \* table watch_history: sequence of rows, in rowid order
    ratings,        \* table ratings: sequence of rows, in rowid order
    call,           \* the last operation invoked, with its arguments
    ret,            \* what that operation returned
    session_state,  \* st.session_state of the browser session: key -> value
    sqlite_sequence,\* table sqlite_sequence: the largest users.id that
                    \* AUTOINCREMENT has handed out
    sessions,       \* concurrent browser sessions: the user id each holds and
                    \* the profile form it is in the middle of submitting
    server          \* the Streamlit process: the page of the session, whether
                    \* a script run is queued, the st.cache_data entry of
                    \* load_data, the executions of compute_similarity

vars == <<df, users, watch_history, ratings, sqlite_sequence, call, ret,
          session_state, server, sessions>>

webvars == <<session_state, server, sessions>>

---------------------------------------------------------------------------
(* Bounds of the model *)

\* rows of the catalog handed to the recommender and the aggregator
NumRecords == 3
\* largest n asked of the recommender
MaxN == 3
\* longest candidate DataFrame handed to apply_preferences_filter
MaxCand == 2
\* rows of tables watch_history and ratings together
MaxRows == 2

---------------------------------------------------------------------------
(* Strings the code searches with `in` *)

Music   == <<"M", "u", "s", "i", "c">>
Musical == <<"M", "u", "s", "i", "c", "a", "l">>
Drama   == <<"D", "r", "a", "m", "a">>
\* the separator of the Genre column
CommaSpace == <<",", " ">>

\* Python's `g in x` on two str values
IsSubstring(g, x) ==
    \E i \in 0..(Len(x) - Len(g)) : SubSeq(x, i + 1, i + Len(g)) = g

\* Python's x.split(', '): the labels of a Genre value, as a sequence
RECURSIVE SplitFrom(_, _, _)
SplitFrom(x, i, cur) ==
    IF i > Len(x) THEN <<cur>>
    ELSE IF i + 1 <= Len(x) /\ SubSeq(x, i, i + 1) = CommaSpace
         THEN <<cur>> \o SplitFrom(x, i + 2, <<>>)
         ELSE SplitFrom(x, i + 1, Append(cur, x[i]))

Split(x) == SplitFrom(x, 1, <<>>)

Range(s) == {s[i] : i \in 1..Len(s)}

Min(a, b) == IF a <= b THEN a ELSE b

---------------------------------------------------------------------------
(* The catalog.  data/imdb_top_1000.csv is not part of the sources; these  *)
(* rows have the columns load_data leaves in the frame.  Content is the    *)
(* set of terms TfidfVectorizer keeps of the Content column.               *)

Vocab == {"dream", "space"}

BaseCatalog == <<
    [Series_Title |-> "Inception",    IMDB_Rating |-> 88, Genre |-> Drama,
     Director |-> "Nolan",    Runtime |-> 150, Content |-> {"dream"}],
    [Series_Title |-> "Interstellar", IMDB_Rating |-> 86, Genre |-> Drama \o CommaSpace \o Music,
     Director |-> "Nolan",    Runtime |-> 151, Content |-> {"space"}],
    [Series_Title |-> "Up",           IMDB_Rating |-> 83, Genre |-> Musical,
     Director |-> "Docter",   Runtime |-> 90,  Content |-> {"dream", "space"}],
    [Series_Title |-> "Whiplash",     IMDB_Rating |-> 85, Genre |-> Drama \o CommaSpace \o Music,
     Director |-> "Chazelle", Runtime |-> 89,  Content |-> {"dream"}],
    [Series_Title |-> "Grease",       IMDB_Rating |-> 72, Genre |-> Musical,
     Director |-> "Kleiser",  Runtime |-> 110, Content |-> {"space"}],
    [Series_Title |-> "Coco",         IMDB_Rating |-> 84, Genre |-> Drama,
     Director |-> "Docter",   Runtime |-> 105, Content |-> {}] >>

\* a title no catalog row carries
UnknownTitle == "Tenet"

Titles(frame) == {frame[i].Series_Title : i \in 1..Len(frame)}

---------------------------------------------------------------------------
(* Similarity model *)

RECURSIVE Factorial(_)
Factorial(k) == IF k <= 1 THEN 1 ELSE k * Factorial(k - 1)

\* every |a|*|b| with |a|,|b| <= |Vocab| divides Scale
Scale == Factorial(Cardinality(Vocab)) * Factorial(Cardinality(Vocab))

\* the dot product of the term vectors without the division by their norms
DotProduct(a, b) == (Cardinality(a \cap b) * Scale) \div Cardinality(Vocab)

\* cosine_similarity of two term vectors with unit weights, as
\* Scale * cos^2 (order-preserving on [0, 1]); a zero vector gives 0
Cosine(a, b) ==
    IF a = {} \/ b = {} THEN 0
    ELSE (Cardinality(a \cap b) * Cardinality(a \cap b) * Scale)
            \div (Cardinality(a) * Cardinality(b))

compute_similarity(frame) ==
    [i \in 1..Len(frame) |->
        [j \in 1..Len(frame) |-> Cosine(frame[i].Content, frame[j].Content)]]

\* pd.Series(df.index, index=df['Series_Title']): title -> row
Indices(frame) ==
    [t \in Titles(frame) |->
        CHOOSE i \in 1..Len(frame) : frame[i].Series_Title = t]

\* the model dictionary helpers.get_recommendations reads
Model(frame) ==
    [indices |-> Indices(frame), cosine_sim |-> compute_similarity(frame)]

---------------------------------------------------------------------------
(* Recommender *)

\* list(enumerate(row))
Enumerate(row) == [i \in 1..Len(row) |-> <<i, row[i]>>]

RECURSIVE InsertDesc(_, _)
InsertDesc(h, r) ==
    IF r = <<>> THEN <<h>>
    ELSE IF Head(r)[2] > h[2] THEN <<Head(r)>> \o InsertDesc(h, Tail(r))
         ELSE <<h>> \o r

\* sorted(sim_scores, key=lambda x: x[1], reverse=True): stable, so equal
\* scores keep their row order
RECURSIVE SortedDesc(_)
SortedDesc(s) ==
    IF s = <<>> THEN <<>> ELSE InsertDesc(Head(s), SortedDesc(Tail(s)))

\* s[1:n+1] for n >= 0
Slice1(s, n) == SubSeq(s, 2, Min(n + 1, Len(s)))

\* df.iloc[movie_indices]
Iloc(frame, movie_indices) ==
    [k \in 1..Len(movie_indices) |-> frame[movie_indices[k]]]

\* a DataFrame with the catalog's columns
Ok(rows) == [raised |-> "none", rows |-> rows, columns |-> TRUE]
\* the call raised e and returned nothing
Raised(e) == [raised |-> e, rows |-> <<>>, columns |-> FALSE]
\* pd.DataFrame(): no rows and no columns
EmptyFrame == [raised |-> "none", rows |-> <<>>, columns |-> FALSE]

\* utils/helpers.py
get_recommendations(title, model, frame, n) ==
    IF title \notin DOMAIN model.indices THEN Raised("KeyError")
    ELSE LET idx        == model.indices[title]
             sim_scores == SortedDesc(Enumerate(model.cosine_sim[idx]))
             sl         == Slice1(sim_scores, n)
             movie_indices == [k \in 1..Len(sl) |-> sl[k][1]]
         IN  Ok(Iloc(frame, movie_indices))

\* pages/2_Recommendations.py
page_get_recommendations(title, frame, cosine_sim, n) ==
    LET indices == Indices(frame) IN
    IF title \notin DOMAIN indices THEN EmptyFrame
    ELSE LET idx        == indices[title]
             sim_scores == SortedDesc(Enumerate(cosine_sim[idx]))
             sl         == Slice1(sim_scores, n)
             kept       == SelectSeq(sl, LAMBDA p : p[1] # idx)
             movie_indices == [k \in 1..Len(kept) |-> kept[k][1]]
         IN  Ok(Iloc(frame, movie_indices))

---------------------------------------------------------------------------
(* The recommender on every catalog of NumRecords rows *)

NoCall == [op |-> "none"]

EmptyDb ==
    /\ users = <<>>
    /\ sqlite_sequence = 0
    /\ watch_history = <<>>
    /\ ratings = <<>>

dbvars == <<users, watch_history, ratings>>

\* the process has started and no script has run: no session key is set,
\* nothing is cached
NoSession ==
    /\ session_state = <<>>
    /\ sessions = <<>>
    /\ server = [page |-> "app.py", queued |-> FALSE,
                 load_data_cached |-> FALSE, similarity_builds |-> 0]

\* TfidfVectorizer.fit_transform raises ValueError on a corpus without a
\* single term, so no similarity matrix exists for such a catalog
EmptyVocabulary(frame) == \A i \in 1..Len(frame) : frame[i].Content = {}

RecInit ==
    /\ df \in {f \in {[i \in 1..NumRecords |->
                          [BaseCatalog[i] EXCEPT !.Content = c[i]]] :
                      c \in [1..NumRecords -> SUBSET Vocab]} :
                 ~EmptyVocabulary(f)}
    /\ EmptyDb
    /\ NoSession
    /\ call = NoCall
    /\ ret = Ok(<<>>)

HelpersRecommend ==
    \E title \in Titles(df) \cup {UnknownTitle}, n \in 0..MaxN :
        /\ call' = [op |-> "helpers.get_recommendations", title |-> title, n |-> n]
        /\ ret' = get_recommendations(title, Model(df), df, n)
        /\ UNCHANGED <<df, webvars, sqlite_sequence, dbvars>>

PageRecommend ==
    \E title \in Titles(df) \cup {UnknownTitle}, n \in 0..MaxN :
        /\ call' = [op |-> "page.get_recommendations", title |-> title, n |-> n]
        /\ ret' = page_get_recommendations(title, df, compute_similarity(df), n)
        /\ UNCHANGED <<df, webvars, sqlite_sequence, dbvars>>

RecNext == HelpersRecommend \/ PageRecommend

SpecRec == RecInit /\ [][RecNext]_vars

---------------------------------------------------------------------------
(* Preference filter (utils/helpers.py, apply_preferences_filter) *)

\* the options of the Settings page's runtime slider
Short  == "Short (<90 min)"
Medium == "Medium (90-150 min)"
Long   == "Long (>150 min)"

\* a dict is a function on its keys; {} is the function with no key
EmptyDict == <<>>

HasKey(d, k) == k \in DOMAIN d

\* d.get(k, default)
DictGet(d, k, default) == IF HasKey(d, k) THEN d[k] ELSE default

\* any(g in x for g in genres)
GenreMatches(x, genres) == \E g \in genres : IsSubstring(g, x)

\* filtered_df[filtered_df['IMDB_Rating'] >= preferences['min_rating']];
\* a frame without columns has no 'IMDB_Rating'
by_min_rating(frame, preferences) ==
    IF frame.raised # "none" \/ ~HasKey(preferences, "min_rating") THEN frame
    ELSE IF ~frame.columns THEN Raised("KeyError")
    ELSE [frame EXCEPT !.rows =
             SelectSeq(@, LAMBDA r : r.IMDB_Rating >= preferences.min_rating)]

\* filtered_df[filtered_df['Genre'].apply(lambda x: any(g in x ...))].
\* Series.apply on a column without rows returns an empty Series of the
\* column's dtype (object), which DataFrame.__getitem__ does not take for a
\* boolean mask but for a list of column labels, an empty one: the frame
\* that comes back has no columns.
by_genres(frame, preferences) ==
    IF \/ frame.raised # "none"
       \/ ~(HasKey(preferences, "genres") /\ preferences.genres # {})
    THEN frame
    ELSE IF ~frame.columns THEN Raised("KeyError")
    ELSE IF frame.rows = <<>> THEN EmptyFrame
    ELSE [frame EXCEPT !.rows =
             SelectSeq(@, LAMBDA r : GenreMatches(r.Genre, preferences.genres))]

\* filtered_df[filtered_df['Director'].isin(preferences['directors'])]
by_directors(frame, preferences) ==
    IF \/ frame.raised # "none"
       \/ ~(HasKey(preferences, "directors") /\ preferences.directors # {})
    THEN frame
    ELSE IF ~frame.columns THEN Raised("KeyError")
    ELSE [frame EXCEPT !.rows =
             SelectSeq(@, LAMBDA r : r.Director \in preferences.directors)]

\* the Medium bucket with both ends left out
by_runtime_exclusive(frame, preferences) ==
    IF \/ frame.raised # "none"
       \/ ~HasKey(preferences, "runtime")
       \/ preferences.runtime \notin {Short, Medium, Long}
    THEN frame
    ELSE IF ~frame.columns THEN Raised("KeyError")
    ELSE IF preferences.runtime = Short
         THEN [frame EXCEPT !.rows = SelectSeq(@, LAMBDA r : r.Runtime < 90)]
    ELSE IF preferences.runtime = Medium
         THEN [frame EXCEPT !.rows =
                  SelectSeq(@, LAMBDA r : r.Runtime > 90 /\ r.Runtime < 150)]
    ELSE [frame EXCEPT !.rows = SelectSeq(@, LAMBDA r : r.Runtime > 150)]

\* the if/elif chain on preferences['runtime']
by_runtime(frame, preferences) ==
    IF \/ frame.raised # "none"
       \/ ~HasKey(preferences, "runtime")
       \/ preferences.runtime \notin {Short, Medium, Long}
    THEN frame
    ELSE IF ~frame.columns THEN Raised("KeyError")
    ELSE IF preferences.runtime = Short
         THEN [frame EXCEPT !.rows = SelectSeq(@, LAMBDA r : r.Runtime < 90)]
    ELSE IF preferences.runtime = Medium
         THEN [frame EXCEPT !.rows =
                  SelectSeq(@, LAMBDA r : r.Runtime >= 90 /\ r.Runtime <= 150)]
    ELSE [frame EXCEPT !.rows = SelectSeq(@, LAMBDA r : r.Runtime > 150)]

\* frame is a DataFrame (frame.raised = "none")
apply_preferences_filter(frame, preferences) ==
    IF DOMAIN preferences = {} THEN frame
    ELSE by_runtime(by_directors(by_genres(by_min_rating(frame, preferences),
                                           preferences), preferences), preferences)

---------------------------------------------------------------------------
(* The filter on every candidate frame of one to MaxCand catalog rows *)

RECURSIVE SeqsUpTo(_, _)
SeqsUpTo(S, k) ==
    IF k = 0 THEN {<<>>}
    ELSE LET shorter == SeqsUpTo(S, k - 1)
         IN  shorter \cup {Append(s, x) : s \in shorter, x \in S}

PrefKeys == {"min_rating", "genres", "directors", "runtime"}

\* preference dictionaries with all four keys, as the Settings form saves
FullPrefs ==
    [min_rating : {85, 90},
     genres     : SUBSET {Music, Drama},
     directors  : {{}, {"Nolan"}, {"Nolan", "Docter"}},
     runtime    : {Short, Medium, Long}]

\* every dictionary with some of the keys, {} included
PrefsSpace == {[k \in K |-> full[k]] : full \in FullPrefs, K \in SUBSET PrefKeys}

FilterInit ==
    /\ df \in SeqsUpTo(Range(BaseCatalog), MaxCand) \ {<<>>}
    /\ EmptyDb
    /\ NoSession
    /\ call = NoCall
    /\ ret = Ok(<<>>)

\* apply_preferences_filter(df, preferences), once per candidate frame
ApplyFilter ==
    \E preferences \in PrefsSpace :
        /\ call = NoCall
        /\ call' = [op |-> "apply_preferences_filter",
                    preferences |-> preferences, again |-> FALSE]
        /\ ret' = apply_preferences_filter(Ok(df), preferences)
        /\ UNCHANGED <<df, webvars, sqlite_sequence, dbvars>>

\* the filter applied to its own result: apply_preferences_filter(
\* apply_preferences_filter(df, preferences), preferences); an exception of
\* the inner call is the exception of the whole
ApplyFilterAgain ==
    /\ call.op = "apply_preferences_filter"
    /\ ~call.again
    /\ call' = [call EXCEPT !.again = TRUE]
    /\ ret' = IF ret.raised # "none" THEN ret
              ELSE apply_preferences_filter(ret, call.preferences)
    /\ UNCHANGED <<df, webvars, sqlite_sequence, dbvars>>

FilterNext == ApplyFilter \/ ApplyFilterAgain

SpecFilter == FilterInit /\ [][FilterNext]_vars

---------------------------------------------------------------------------
(* The SQLite store (utils/database.py) *)

\* what get_user returns for an id with no row
None == [none |-> TRUE]

\* registration data; the password column holds a SHA-256 hex digest.  The
\* UNIQUE constraints of table users bound it by the accounts offered.
Accounts ==
    {[username |-> "ann", email |-> "ann@x.io", password |-> "5e88"],
     [username |-> "bob", email |-> "bob@x.io", password |-> "2bb8"]}

\* preference dictionaries the Settings form has saved
SavedPrefs ==
    {[min_rating |-> 85, genres |-> {Music}, directors |-> {},
      runtime |-> Medium]}

UserIds == DOMAIN users

\* INSERT INTO users: UNIQUE(username), UNIQUE(email); the id is the next
\* AUTOINCREMENT value, one more than the largest id ever handed out
add_user ==
    \E user_data \in Accounts :
        /\ call' = [op |-> "add_user", user_data |-> user_data]
        /\ IF \E u \in UserIds : \/ users[u].username = user_data.username
                                 \/ users[u].email = user_data.email
           THEN /\ ret' = Raised("IntegrityError")
                /\ UNCHANGED <<users, sqlite_sequence>>
           ELSE LET id == sqlite_sequence + 1
                IN  /\ sqlite_sequence' = id
                    /\ users' = [u \in UserIds \cup {id} |->
                                    IF u = id
                                    THEN [username |-> user_data.username,
                                          email |-> user_data.email,
                                          password |-> user_data.password,
                                          preferences |-> EmptyDict]
                                    ELSE users[u]]
                    /\ ret' = Ok(<<>>)
        /\ UNCHANGED <<df, webvars, watch_history, ratings>>

\* SELECT * FROM users WHERE id = ?
get_user(user_id) ==
    IF user_id \in UserIds
    THEN [id |-> user_id,
          username |-> users[user_id].username,
          email |-> users[user_id].email,
          preferences |-> users[user_id].preferences]
    ELSE None

\* UPDATE users SET preferences = ? WHERE id = ?
update_user_preferences ==
    \E user_id \in UserIds, preferences \in SavedPrefs :
        /\ call' = [op |-> "update_user_preferences", user_id |-> user_id]
        /\ users' = [users EXCEPT ![user_id].preferences = preferences]
        /\ ret' = Ok(<<>>)
        /\ UNCHANGED <<df, webvars, sqlite_sequence, watch_history, ratings>>

\* INSERT OR IGNORE INTO watch_history (user_id, movie_id): the table has
\* no UNIQUE constraint on (user_id, movie_id), so nothing is ever ignored
add_to_watch_history ==
    \E user_id \in UserIds, movie_id \in Titles(df) :
        /\ Len(watch_history) + Len(ratings) < MaxRows
        /\ call' = [op |-> "add_to_watch_history", user_id |-> user_id,
                    movie_id |-> movie_id]
        /\ watch_history' = Append(watch_history,
                                   [user_id |-> user_id, movie_id |-> movie_id])
        /\ ret' = Ok(<<>>)
        /\ UNCHANGED <<df, webvars, sqlite_sequence, users, ratings>>

\* SELECT movie_id FROM watch_history WHERE user_id = ?
get_watch_history(user_id) ==
    LET mine == SelectSeq(watch_history, LAMBDA row : row.user_id = user_id)
    IN  [k \in 1..Len(mine) |-> mine[k].movie_id]

\* the slider of the Recommendations page offers 1..10
RatingValues == {4, 9}

\* add_rating over a ratings table without UNIQUE(user_id, movie_id): every
\* call inserts a row
add_rating_plain_insert ==
    \E user_id \in UserIds, movie_id \in Titles(df), rating \in RatingValues :
        /\ Len(watch_history) + Len(ratings) < MaxRows
        /\ call' = [op |-> "add_rating", user_id |-> user_id,
                    movie_id |-> movie_id, rating |-> rating]
        /\ ratings' = Append(ratings, [user_id |-> user_id, movie_id |-> movie_id,
                                       rating |-> rating])
        /\ ret' = Ok(<<>>)
        /\ UNCHANGED <<df, webvars, sqlite_sequence, users, watch_history>>

\* INSERT INTO ratings ... ON CONFLICT(user_id, movie_id) DO UPDATE SET rating
add_rating ==
    \E user_id \in UserIds, movie_id \in Titles(df), rating \in RatingValues :
        LET hit == {k \in 1..Len(ratings) :
                       ratings[k].user_id = user_id /\ ratings[k].movie_id = movie_id}
        IN  /\ hit = {} => Len(watch_history) + Len(ratings) < MaxRows
            /\ call' = [op |-> "add_rating", user_id |-> user_id,
                        movie_id |-> movie_id, rating |-> rating]
            /\ ratings' =
                  IF hit = {}
                  THEN Append(ratings, [user_id |-> user_id, movie_id |-> movie_id,
                                        rating |-> rating])
                  ELSE [k \in 1..Len(ratings) |->
                           IF k \in hit THEN [ratings[k] EXCEPT !.rating = rating]
                           ELSE ratings[k]]
            /\ ret' = Ok(<<>>)
            /\ UNCHANGED <<df, webvars, sqlite_sequence, users, watch_history>>

\* SELECT movie_id, rating FROM ratings WHERE user_id = ?: the dict's items,
\* in insertion order
get_ratings(user_id) ==
    LET mine == SelectSeq(ratings, LAMBDA row : row.user_id = user_id)
    IN  [k \in 1..Len(mine) |-> <<mine[k].movie_id, mine[k].rating>>]

---------------------------------------------------------------------------
(* Aggregator (utils/helpers.py, get_personalized_recommendations) *)

\* the first n rows, n >= 0
Head_(rows, n) == SubSeq(rows, 1, Min(n, Len(rows)))

\* frame.head(n) of what apply_preferences_filter returned
FrameHead(frame, n) ==
    IF frame.raised # "none" THEN frame ELSE [frame EXCEPT !.rows = Head_(@, n)]

\* frame.drop_duplicates(): the first of equal rows is kept
RECURSIVE DropDuplicates(_)
DropDuplicates(frame) ==
    IF frame = <<>> THEN <<>>
    ELSE LET init == DropDuplicates(SubSeq(frame, 1, Len(frame) - 1))
             last == frame[Len(frame)]
         IN  IF last \in Range(init) THEN init ELSE Append(init, last)

\* pd.concat(frames)
RECURSIVE Concat(_)
Concat(frames) ==
    IF frames = <<>> THEN <<>> ELSE Head(frames) \o Concat(Tail(frames))

\* df.sort_values('IMDB_Rating', ascending=False); the catalog's ratings are
\* pairwise different, so the order of equal ratings does not arise
SortByRatingDesc(frame) ==
    LET order == SortedDesc([i \in 1..Len(frame) |-> <<i, frame[i].IMDB_Rating>>])
    IN  [k \in 1..Len(frame) |-> frame[order[k][1]]]

\* frame[~frame['Series_Title'].isin(watched)]
NotWatched(frame, watched) ==
    SelectSeq(frame, LAMBDA r : r.Series_Title \notin Range(watched))

get_personalized_recommendations(user_id, frame, model, n) ==
    LET user == get_user(user_id) IN
    IF user = None THEN Raised("AttributeError")
    ELSE
    LET watched     == DictGet(user, "watch_history", <<>>)
        rated       == DictGet(user, "ratings", <<>>)
        preferences == DictGet(user, "preferences", EmptyDict)
    IN  IF rated # <<>>
        THEN LET top_rated == Head_(SortedDesc(rated), 3)
                 recommendations ==
                     [k \in 1..Len(top_rated) |->
                         get_recommendations(top_rated[k][1], model, frame, 3)]
             IN  IF \E k \in 1..Len(top_rated) : recommendations[k].raised # "none"
                 THEN Raised("KeyError")
                 ELSE LET combined_recs ==
                              DropDuplicates(Concat(
                                  [k \in 1..Len(top_rated) |-> recommendations[k].rows]))
                      IN  FrameHead(apply_preferences_filter(
                              Ok(NotWatched(combined_recs, watched)), preferences), n)
        ELSE FrameHead(apply_preferences_filter(
                 Ok(NotWatched(SortByRatingDesc(frame), watched)), preferences), n)

---------------------------------------------------------------------------
(* The store and the aggregator over it *)

\* the catalog the pages load: the first three rows
Catalog == SubSeq(BaseCatalog, 1, 3)

\* the n the aggregator is asked for
PersonalizeN == {1, 2}

Init ==
    /\ df = Catalog
    /\ EmptyDb
    /\ NoSession
    /\ call = NoCall
    /\ ret = Ok(<<>>)

\* get_personalized_recommendations(user_id, df, model, n) for a session's user
Personalize ==
    \E user_id \in UserIds, n \in PersonalizeN :
        /\ call' = [op |-> "get_personalized_recommendations",
                    user_id |-> user_id, n |-> n]
        /\ ret' = get_personalized_recommendations(user_id, df, Model(df), n)
        /\ UNCHANGED <<df, webvars, sqlite_sequence, dbvars>>

Next ==
    \/ add_user
    \/ update_user_preferences
    \/ add_to_watch_history
    \/ add_rating
    \/ Personalize

Spec == Init /\ [][Next]_vars

---------------------------------------------------------------------------
(* Claims about the recommender (checked under SpecRec) *)

RecCall ==
    call.op \in {"helpers.get_recommendations", "page.get_recommendations"}

\* a recommender call whose seed title is in the model's lookup
SeedKnown == RecCall /\ call.title \in Titles(df)

SeedRow == Indices(df)[call.title]

RowOf(record) == Indices(df)[record.Series_Title]

\* similarity of row i to the seed of the last call
SimToSeed(i) == compute_similarity(df)[SeedRow][i]

\* C2: for every title in the model, every n >= 0 and every similarity
\* matrix (ties with the seed's own score and a zero self-similarity
\* included), neither get_recommendations returns a record whose title is
\* the seed title.
C2_SeedNeverReturned ==
    SeedKnown => \A k \in 1..Len(ret.rows) : ret.rows[k].Series_Title # call.title

\* C3: when the requested title is absent from the model's lookup, the
\* recommender (page version and helpers version alike) returns an empty
\* result and raises nothing.
C3_UnknownTitleGivesEmpty ==
    (RecCall /\ call.title \notin Titles(df)) => (ret.raised = "none" /\ ret.rows = <<>>)

\* C4: for a seed in a corpus of N records with unique titles the result
\* has exactly min(n, N-1) records, and all N-1 non-seed records when
\* n >= N-1.
C4_ExactlyMinCount ==
    SeedKnown =>
        /\ Len(ret.rows) = Min(call.n, Len(df) - 1)
        /\ call.n >= Len(df) - 1 => Titles(ret.rows) = Titles(df) \ {call.title}

\* C5: the returned records are in non-increasing similarity to the seed,
\* equal similarities keep corpus order, and no omitted non-seed record is
\* strictly more similar to the seed than a returned one.
C5_OrderedTopN ==
    SeedKnown =>
        /\ \A j, k \in 1..Len(ret.rows) :
              j < k => /\ SimToSeed(RowOf(ret.rows[j])) >= SimToSeed(RowOf(ret.rows[k]))
                       /\ SimToSeed(RowOf(ret.rows[j])) = SimToSeed(RowOf(ret.rows[k]))
                             => RowOf(ret.rows[j]) < RowOf(ret.rows[k])
        /\ \A i \in 1..Len(df) :
              (i # SeedRow /\ df[i].Series_Title \notin Titles(ret.rows))
                 => \A k \in 1..Len(ret.rows) : SimToSeed(i) <= SimToSeed(RowOf(ret.rows[k]))

---------------------------------------------------------------------------
(* Claims about the preference filter (checked under SpecFilter) *)

\* a first application of the filter to df
FilterCall == call.op = "apply_preferences_filter" /\ ~call.again

\* the dictionary d without key k
WithoutKey(d, k) == [j \in DOMAIN d \ {k} |-> d[j]]

\* the genre rule as the specification words it: some label of the record's
\* comma-separated list is a member of the preferred set
GenreLabelMatch(x, genres) == Range(Split(x)) \cap genres # {}

\* the runtime buckets as the specification words them
InBucket(bucket, runtime) ==
    CASE bucket = Short  -> runtime < 90
      [] bucket = Medium -> 90 <= runtime /\ runtime <= 150
      [] bucket = Long   -> runtime > 150

\* a record meets every constraint the preferences specify
MeetsAll(r, preferences) ==
    /\ HasKey(preferences, "min_rating") => r.IMDB_Rating >= preferences.min_rating
    /\ (HasKey(preferences, "genres") /\ preferences.genres # {})
          => GenreLabelMatch(r.Genre, preferences.genres)
    /\ (HasKey(preferences, "directors") /\ preferences.directors # {})
          => r.Director \in preferences.directors
    /\ HasKey(preferences, "runtime") => InBucket(preferences.runtime, r.Runtime)

\* C6: under a genre preference a record is kept iff one of the labels of
\* its comma-separated genre list equals a preferred genre; a preferred
\* label that is only a substring of a record's label does not match.
C6_GenreKeepsIffLabelMatches ==
    (FilterCall /\ DOMAIN call.preferences = {"genres"} /\ call.preferences.genres # {})
        => ret.rows = SelectSeq(df, LAMBDA r : GenreLabelMatch(r.Genre, call.preferences.genres))

\* C7: the result is the order-preserving subsequence of the input holding
\* exactly the records that meet every specified constraint; absent keys and
\* empty genre/director lists remove nothing.
C7_ExactlyTheRecordsMeetingAll ==
    FilterCall => ret.rows = SelectSeq(df, LAMBDA r : MeetsAll(r, call.preferences))

\* What holds of C7: a call that returns has kept exactly the records that
\* meet every specified constraint with the genre rule read as the code
\* applies it (substring match), in input order.
FilterIsConjunctionOfCodeRules ==
    (FilterCall /\ ret.raised = "none") =>
        ret.rows = SelectSeq(df, LAMBDA r :
            /\ HasKey(call.preferences, "min_rating")
                  => r.IMDB_Rating >= call.preferences.min_rating
            /\ (HasKey(call.preferences, "genres") /\ call.preferences.genres # {})
                  => GenreMatches(r.Genre, call.preferences.genres)
            /\ (HasKey(call.preferences, "directors") /\ call.preferences.directors # {})
                  => r.Director \in call.preferences.directors
            /\ HasKey(call.preferences, "runtime")
                  => InBucket(call.preferences.runtime, r.Runtime))

\* C8: with the runtime preference set the records kept are exactly those,
\* among the records the other constraints keep, with runtime < 90 for
\* short, 90 <= runtime <= 150 for medium, runtime > 150 for long; and
\* every record is kept by exactly one of the three buckets.
C8_RuntimeBuckets ==
    /\ (FilterCall /\ HasKey(call.preferences, "runtime")) =>
          ret.rows = SelectSeq(
              apply_preferences_filter(Ok(df), WithoutKey(call.preferences, "runtime")).rows,
              LAMBDA r : InBucket(call.preferences.runtime, r.Runtime))
    /\ \A i \in 1..Len(df) :
          Cardinality({b \in {Short, Medium, Long} :
              apply_preferences_filter(Ok(<<df[i]>>), [runtime |-> b]) = Ok(<<df[i]>>)}) = 1

\* a Medium call on a frame with a 150-minute and a 151-minute record keeps
\* the first and drops the second
C8_Witness ==
    /\ FilterCall
    /\ call.preferences = [runtime |-> Medium]
    /\ \E i, j \in 1..Len(df) : df[i].Runtime = 150 /\ df[j].Runtime = 151
    /\ \E k \in 1..Len(ret.rows) : ret.rows[k].Runtime = 150
    /\ \A k \in 1..Len(ret.rows) : ret.rows[k].Runtime # 151

\* C9: with min_rating set a record is kept iff its rating is >= the
\* threshold (among the records the other constraints keep); when no
\* candidate reaches the threshold the result is the empty sequence and
\* nothing is raised.
C9_MinRatingThreshold ==
    (FilterCall /\ HasKey(call.preferences, "min_rating")) =>
        /\ ret.rows = SelectSeq(
              apply_preferences_filter(Ok(df), WithoutKey(call.preferences, "min_rating")).rows,
              LAMBDA r : r.IMDB_Rating >= call.preferences.min_rating)
        /\ (\A i \in 1..Len(df) : df[i].IMDB_Rating < call.preferences.min_rating)
              => (ret.raised = "none" /\ ret.rows = <<>>)

\* What holds of C9: the records kept are those rated >= the threshold.
MinRatingKeepsFromThreshold ==
    (FilterCall /\ HasKey(call.preferences, "min_rating")) =>
        ret.rows = SelectSeq(
            apply_preferences_filter(Ok(df), WithoutKey(call.preferences, "min_rating")).rows,
            LAMBDA r : r.IMDB_Rating >= call.preferences.min_rating)

\* C10: with an empty preference set the filter returns its input unchanged,
\* and filtering the result again with the same preferences gives what
\* filtering once gave (the same records, in the same order, no exception).
C10_IdentityAndIdempotent ==
    /\ (FilterCall /\ call.preferences = EmptyDict) => ret = Ok(df)
    /\ (call.op = "apply_preferences_filter" /\ call.again) =>
          LET once == apply_preferences_filter(Ok(df), call.preferences)
          IN  ret.raised = once.raised /\ ret.rows = once.rows

---------------------------------------------------------------------------
(* Claims about the aggregator (checked under Spec) *)

PersonalizeCall == call.op = "get_personalized_recommendations"

\* C1: after any sequence of add_to_watch_history and add_rating calls,
\* get_personalized_recommendations(user, df, model, n) returns no record
\* whose title is in the user's stored watch history
\* (db.get_watch_history), on the rated path and on the cold-start path.
C1_NoWatchedTitleReturned ==
    PersonalizeCall =>
        \A k \in 1..Len(ret.rows) :
            ret.rows[k].Series_Title \notin Range(get_watch_history(call.user_id))

\* the user of the call has at least one row in the ratings table
HasStoredRating == PersonalizeCall /\ get_ratings(call.user_id) # <<>>

\* the up-to-3 highest-rated titles of the store, highest first
StoredSeeds(user_id) ==
    LET top == Head_(SortedDesc(get_ratings(user_id)), 3)
    IN  [k \in 1..Len(top) |-> top[k][1]]

\* 3 candidates per stored seed, concatenated in seed order, first occurrence
\* of a title kept, watched titles of the store removed, preferences applied,
\* truncated to n
RatedPathOfStore(user_id, n) ==
    LET seeds == StoredSeeds(user_id)
        recs  == [k \in 1..Len(seeds) |->
                     get_recommendations(seeds[k], Model(df), df, 3).rows]
    IN  FrameHead(apply_preferences_filter(
            Ok(NotWatched(DropDuplicates(Concat(recs)),
                          get_watch_history(user_id))),
            users[user_id].preferences), n)

\* the catalog by descending rating without the watched titles of the store,
\* preferences applied, truncated to n
PopularityOfStore(user_id, n) ==
    FrameHead(apply_preferences_filter(
        Ok(NotWatched(SortByRatingDesc(df), get_watch_history(user_id))),
        users[user_id].preferences), n)

\* C11: when the user has at least one stored rating (db.add_rating),
\* get_personalized_recommendations takes the rated path: seeds are the
\* up-to-3 highest-rated titles, 3 candidates per seed, concatenated in seed
\* order, deduplicated, watched titles removed, preferences applied,
\* truncated to n; it does not return the popularity ranking.
C11_RatedPathTaken ==
    HasStoredRating =>
        /\ ret.raised = "none"
        /\ ret.rows = RatedPathOfStore(call.user_id, call.n).rows

\* C12: when the user has no ratings, get_personalized_recommendations
\* returns the first n records of the catalog by descending quality rating
\* after removing every title of the user's watch history and applying the
\* preference filter.
C12_ColdStartRanking ==
    (PersonalizeCall /\ get_ratings(call.user_id) = <<>>) =>
        ret = PopularityOfStore(call.user_id, call.n)

\* the second half of C12 alone: with no ratings, an empty watch history and
\* empty preferences the result is the top-n catalog entries by rating
ColdStartTopN ==
    (/\ PersonalizeCall
     /\ get_ratings(call.user_id) = <<>>
     /\ get_watch_history(call.user_id) = <<>>
     /\ users[call.user_id].preferences = EmptyDict) =>
        ret = Ok(Head_(SortByRatingDesc(df), call.n))

\* C13: on the rated path (the user has stored ratings) no title used as a
\* seed, one of the user's top-3 rated titles, is in the output of
\* get_personalized_recommendations.
C13_NoSeedReturned ==
    HasStoredRating =>
        \A k \in 1..Len(ret.rows) :
            ret.rows[k].Series_Title \notin Range(StoredSeeds(call.user_id))

---------------------------------------------------------------------------
(* Claims about the store (checked under Spec) *)

\* C14: add_to_watch_history is idempotent: after any sequence of
\* add_to_watch_history calls get_watch_history(user) holds each added title
\* exactly once for that user (adding a title already in the history leaves
\* the stored history unchanged).
C14_WatchHistoryHoldsEachTitleOnce ==
    \A user_id \in UserIds :
        LET h == get_watch_history(user_id)
        IN  \A i, j \in 1..Len(h) : h[i] = h[j] => i = j

\* the rating the store holds for (user_id, movie_id), as a set of values
StoredRating(rows, user_id, movie_id) ==
    {rows[k].rating : k \in {i \in 1..Len(rows) :
        rows[i].user_id = user_id /\ rows[i].movie_id = movie_id}}

\* the (user, title) pairs that have a row in the ratings table
RatedPairs(rows) == {<<rows[k].user_id, rows[k].movie_id>> : k \in 1..Len(rows)}

\* at most one row per (user, title)
OneRatingPerPair ==
    \A i, j \in 1..Len(ratings) :
        (ratings[i].user_id = ratings[j].user_id
            /\ ratings[i].movie_id = ratings[j].movie_id) => i = j

\* after add_rating(user, title, r) the store holds r for (user, title)
LatestRatingStored ==
    call.op = "add_rating" =>
        StoredRating(ratings, call.user_id, call.movie_id) = {call.rating}

\* a step that changes the ratings table is an add_rating call and changes
\* the rating of the call's (user, title) pair only
OtherRatingsKept ==
    ratings' # ratings =>
        /\ call'.op = "add_rating"
        /\ \A pair \in RatedPairs(ratings) \cup RatedPairs(ratings') :
              pair # <<call'.user_id, call'.movie_id>> =>
                  StoredRating(ratings', pair[1], pair[2])
                      = StoredRating(ratings, pair[1], pair[2])

\* C15: after any sequence of add_rating calls the ratings store holds at
\* most one rating per (user, title), get_ratings(user)[title] is the value
\* of the most recent add_rating(user, title, r), and the ratings of other
\* users and other titles are unchanged by the call.
C15_RatingUpsert ==
    /\ [](OneRatingPerPair /\ LatestRatingStored)
    /\ [][OtherRatingsKept]_vars

\* add_rating hit an existing (user, title) row while another row was stored
C15_Witness ==
    /\ call.op = "add_rating"
    /\ Len(ratings) = 2
    /\ ratings[1] = [user_id |-> call.user_id, movie_id |-> call.movie_id,
                     rating |-> call.rating]
    /\ <<ratings[2].user_id, ratings[2].movie_id>>
          # <<call.user_id, call.movie_id>>

---------------------------------------------------------------------------
(* Claims about the similarity matrix (checked under SpecRec) *)

---------------------------------------------------------------------------
(* load_data (pages/2_Recommendations.py): the cleaning of the CSV columns *)

\* cells of column Runtime as pd.read_csv returns them
Min89  == <<"8", "9", " ", "m", "i", "n">>
Min150 == <<"1", "5", "0", " ", "m", "i", "n">>
Bare90 == <<"9", "0">>
NotAvailable == <<"N", "/", "A">>
MinSuffix == <<" ", "m", "i", "n">>

RawRuntimes == {Min89, Min150, Bare90, NotAvailable}

\* cells of column Released_Year; the catalog has a certificate in one of them
RawYears == {<<"1", "9", "9", "4">>, <<"2", "0", "1", "0">>, <<"P", "G">>}

\* str.replace(old, ''): every occurrence of old, left to right
RECURSIVE Remove(_, _)
Remove(x, old) ==
    IF Len(x) < Len(old) THEN x
    ELSE IF SubSeq(x, 1, Len(old)) = old
         THEN Remove(SubSeq(x, Len(old) + 1, Len(x)), old)
         ELSE <<Head(x)>> \o Remove(Tail(x), old)

Digits == {"0", "1", "2", "3", "4", "5", "6", "7", "8", "9"}

DigitValue(c) ==
    CASE c = "0" -> 0 [] c = "1" -> 1 [] c = "2" -> 2 [] c = "3" -> 3
      [] c = "4" -> 4 [] c = "5" -> 5 [] c = "6" -> 6 [] c = "7" -> 7
      [] c = "8" -> 8 [] c = "9" -> 9

\* the str is a decimal literal int() and pd.to_numeric accept
IsNumeric(x) == x # <<>> /\ \A k \in 1..Len(x) : x[k] \in Digits

RECURSIVE ToInt(_)
ToInt(x) ==
    IF x = <<>> THEN 0
    ELSE 10 * ToInt(SubSeq(x, 1, Len(x) - 1)) + DigitValue(x[Len(x)])

\* the value pd.to_numeric(..., errors='coerce') leaves for a cell it cannot
\* convert (no year is negative)
NaN == -1

\* Series.median() over the cells that are not NaN, then astype(int)
RECURSIVE SortedAsc(_)
SortedAsc(values) ==
    IF values = <<>> THEN <<>>
    ELSE LET rest == SortedAsc(Tail(values))
             lo   == SelectSeq(rest, LAMBDA v : v <= Head(values))
             hi   == SelectSeq(rest, LAMBDA v : v > Head(values))
         IN  lo \o <<Head(values)>> \o hi

Median(values) ==
    LET v == SortedAsc(values)
        m == Len(v)
    IN  IF m = 0 THEN NaN
        ELSE IF m % 2 = 1 THEN v[(m + 1) \div 2]
        ELSE (v[m \div 2] + v[m \div 2 + 1]) \div 2

\* lines 14-15: Released_Year without 'PG', converted with errors='coerce',
\* NaN filled with the median
CleanYears(raw) ==
    LET stripped == [k \in 1..Len(raw) |-> Remove(raw[k].Released_Year, <<"P", "G">>)]
        numeric  == [k \in 1..Len(raw) |->
                        IF IsNumeric(stripped[k]) THEN ToInt(stripped[k]) ELSE NaN]
        median   == Median(SelectSeq(numeric, LAMBDA v : v # NaN))
    IN  [k \in 1..Len(raw) |-> IF numeric[k] = NaN THEN median ELSE numeric[k]]

\* load_data: astype(int) raises ValueError on the first cell that is not an
\* int literal (and on a NaN year when no year could be converted)
load_data(raw) ==
    LET years    == CleanYears(raw)
        runtimes == [k \in 1..Len(raw) |-> Remove(raw[k].Runtime, MinSuffix)]
    IN  IF \E k \in 1..Len(raw) : years[k] = NaN THEN Raised("ValueError")
        ELSE IF \E k \in 1..Len(raw) : ~IsNumeric(runtimes[k])
             THEN Raised("ValueError")
        ELSE Ok([k \in 1..Len(raw) |->
                    [raw[k] EXCEPT !.Released_Year = years[k],
                                   !.Runtime = ToInt(runtimes[k])]])

\* every CSV of up to NumRecords rows over the cells above
LoadInit ==
    /\ df \in UNION {
          {[k \in 1..m |-> [Series_Title |-> BaseCatalog[k].Series_Title,
                            Released_Year |-> y[k], Runtime |-> r[k]]] :
               y \in [1..m -> RawYears], r \in [1..m -> RawRuntimes]} :
          m \in 1..(NumRecords - 1)}
    /\ EmptyDb
    /\ NoSession
    /\ call = NoCall
    /\ ret = Ok(<<>>)

\* df = load_data() on a process that has not cached it
LoadData ==
    /\ call = NoCall
    /\ call' = [op |-> "load_data"]
    /\ ret' = load_data(df)
    /\ server' = [server EXCEPT !.load_data_cached = (ret'.raised = "none")]
    /\ UNCHANGED <<df, sessions, sqlite_sequence, dbvars, session_state>>

LoadNext == LoadData

SpecLoad == LoadInit /\ [][LoadNext]_vars

---------------------------------------------------------------------------
(* Claims about load_data (checked under SpecLoad) *)

\* the Runtime cell is an integer once ' min' is removed
Parseable(row) == IsNumeric(Remove(row.Runtime, MinSuffix))

\* C17: when a row's runtime cannot be parsed as an integer after removing
\* ' min', load_data drops that row and returns the remaining rows: the load
\* is not aborted, and the corpus has no record with an unparseable runtime.
C17_UnparseableRuntimeDropped ==
    (/\ call.op = "load_data"
     /\ \E k \in 1..Len(df) : ~Parseable(df[k])
     /\ \A k \in 1..Len(df) : IsNumeric(df[k].Released_Year)) =>
        /\ ret.raised = "none"
        /\ [k \in 1..Len(ret.rows) |-> ret.rows[k].Series_Title]
              = LET kept == SelectSeq(df, Parseable)
                IN  [k \in 1..Len(kept) |-> kept[k].Series_Title]

\* a load that returns has converted every Runtime cell
LoadedRuntimesAreInts ==
    (call.op = "load_data" /\ ret.raised = "none") =>
        /\ Len(ret.rows) = Len(df)
        /\ \A k \in 1..Len(df) :
              /\ Parseable(df[k])
              /\ ret.rows[k].Runtime = ToInt(Remove(df[k].Runtime, MinSuffix))

---------------------------------------------------------------------------
(* The pages of a browser session (app.py, pages/*.py).  A step is one    *)
(* script run, from its trigger to its end or to the st.rerun() or        *)
(* st.switch_page() that stops it and queues the next run.                *)

\* executions of compute_similarity beyond which the user starts no further
\* run of the Recommendations page
MaxBuilds == 4

\* st.session_state.user_id = None
NoUser == 0
\* st.session_state.last_selection = None
NoSelection == "None"

Home == "pages/1_Home.py"
Recommendations == "pages/2_Recommendations.py"
Analytics == "pages/3_Analytics.py"
Settings == "pages/4_Settings.py"
Pages == {"app.py", Home, Recommendations, Analytics, Settings}

\* st.session_state.k = v
Put(d, k, v) == [x \in DOMAIN d \cup {k} |-> IF x = k THEN v ELSE d[x]]

\* if k not in st.session_state: st.session_state.k = v
SetDefault(d, k, v) == IF HasKey(d, k) THEN d ELSE Put(d, k, v)

\* hashlib.sha256(password.encode()).hexdigest(), by its first four digits
hash_password(password) ==
    CASE password = "password" -> "5e88"
      [] password = "secret"   -> "2bb8"
      [] password = ""         -> "e3b0"
      [] OTHER                 -> "ffff"

\* what the login form is filled with
Emails == {"ann@x.io", "bob@x.io", ""}
Passwords == {"password", "secret", ""}

\* SELECT id, password FROM users WHERE email = ?; the tuple returned is
\* (True, id) or (False, message), here [success, result, error]
authenticate_user(email, password) ==
    LET result == {u \in UserIds : users[u].email = email}
    IN  IF result # {} /\ users[CHOOSE u \in result : TRUE].password = password
        THEN [success |-> TRUE, result |-> CHOOSE u \in result : TRUE,
              error |-> ""]
        ELSE [success |-> FALSE, result |-> NoUser,
              error |-> "Invalid credentials"]

\* the run did not call authenticate_user
NoAuth == [success |-> FALSE, result |-> NoUser, error |-> "not called"]

\* the script stopped in st.rerun() or st.switch_page(page): a run is queued
Queued(ss, page, auth) ==
    [session_state |-> ss, page |-> page, queued |-> TRUE, auth |-> auth]
\* the script ran to its end and the page is rendered
Rendered(ss, page, auth) ==
    [session_state |-> ss, page |-> page, queued |-> FALSE, auth |-> auth]

\* logout() that clears the flag and keeps the user id
logout_flag_only(ss) ==
    Queued(Put(Put(ss, "logged_in", FALSE), "show_login", FALSE), Home, NoAuth)

\* pages/1_Home.py logout()
logout(ss) ==
    Queued(Put(Put(Put(ss, "logged_in", FALSE), "user_id", NoUser),
               "show_login", FALSE), Home, NoAuth)

\* pages/1_Home.py show_auth(): the login form, then the Back button
show_auth(ss, widget, email, password) ==
    IF widget = "login_form"
    THEN IF email = "" \/ password = "" THEN Rendered(ss, Home, NoAuth)
         ELSE LET auth == authenticate_user(email, hash_password(password))
              IN  IF auth.success
                  THEN Queued(Put(Put(Put(ss, "user_id", auth.result),
                                      "logged_in", TRUE),
                                  "show_login", FALSE), Home, auth)
                  ELSE Rendered(ss, Home, auth)
    ELSE IF widget = "back_to_home"
         THEN Queued(Put(ss, "show_login", FALSE), Home, NoAuth)
    ELSE Rendered(ss, Home, NoAuth)

\* pages/1_Home.py main()
home_main(ss0, widget, email, password) ==
    LET ss == SetDefault(SetDefault(SetDefault(ss0, "logged_in", FALSE),
                                    "user_id", NoUser), "show_login", FALSE)
    IN  IF DictGet(ss, "logout_requested", FALSE) THEN logout(ss)
        ELSE IF DictGet(ss, "logged_in", FALSE)
             THEN IF widget = "go_to_recommendations"
                  THEN Queued(ss, Recommendations, NoAuth)
                  ELSE IF widget = "logout"
                       THEN Queued(Put(ss, "logout_requested", TRUE), Home, NoAuth)
                  ELSE Rendered(ss, Home, NoAuth)
        ELSE IF DictGet(ss, "show_login", FALSE)
             THEN show_auth(ss, widget, email, password)
        ELSE IF widget = "login_register"
             THEN Queued(Put(ss, "show_login", TRUE), Home, NoAuth)
        ELSE Rendered(ss, Home, NoAuth)

\* app.py main(): 'from_auth' is set nowhere, so the script always switches
\* to the Home page
app_main(ss0, widget) ==
    LET ss == SetDefault(SetDefault(ss0, "logged_in", FALSE), "user_id", NoUser)
    IN  IF ~DictGet(ss, "from_auth", FALSE) THEN Queued(ss, Home, NoAuth)
        ELSE IF ss.logged_in
             THEN IF widget = "logout"
                  THEN Queued(Put(Put(ss, "logged_in", FALSE), "user_id", NoUser),
                              "app.py", NoAuth)
                  ELSE Queued(ss, Recommendations, NoAuth)
        ELSE Rendered(ss, "app.py", NoAuth)

\* the guard that opens the Recommendations, Analytics and Settings pages
login_guard(ss, page) ==
    IF ~DictGet(ss, "logged_in", FALSE) THEN Queued(ss, Home, NoAuth)
    ELSE Rendered(ss, page, NoAuth)

\* pages/2_Recommendations.py main(), the session keys it sets
recommendations_main(ss0, widget, title) ==
    LET guard == login_guard(ss0, Recommendations) IN
    IF guard.queued THEN guard
    ELSE LET ss == SetDefault(SetDefault(ss0, "last_recommendation", NoSelection),
                              "last_selection", NoSelection)
         IN  IF widget = "movie_select" /\ title # ss.last_selection
             THEN Rendered(Put(Put(ss, "last_recommendation", title),
                               "last_selection", title), Recommendations, NoAuth)
             ELSE IF widget \in {"watch", "submit"} /\ ss.last_selection # NoSelection
                  THEN Queued(ss, Recommendations, NoAuth)
             ELSE Rendered(ss, Recommendations, NoAuth)

\* pages/4_Settings.py main(), the Delete Account button: the checkbox is
\* created by the run of the click and is unchecked in it, and the run that
\* checks it no longer has the button pressed
settings_main(ss, widget) ==
    LET guard == login_guard(ss, Settings) IN
    IF guard.queued THEN guard
    ELSE LET checkbox == FALSE
         IN  IF widget = "delete_account" /\ checkbox
             THEN Queued(Put(Put(ss, "logged_in", FALSE), "user_id", NoUser),
                         Home, NoAuth)
             ELSE Rendered(ss, Settings, NoAuth)

\* the script run leaves the session and the process as `out` says
Commit(out) ==
    /\ session_state' = out.session_state
    /\ server' = [server EXCEPT !.page = out.page, !.queued = out.queued]

\* the same, for a run of the Recommendations page that passed the login
\* guard: load_data() is cached by st.cache_data, compute_similarity(df) is
\* a plain call
CommitRecommendations(out) ==
    /\ session_state' = out.session_state
    /\ server' =
          IF DictGet(session_state, "logged_in", FALSE)
          THEN [page |-> out.page, queued |-> out.queued,
                load_data_cached |-> TRUE,
                similarity_builds |-> server.similarity_builds + 1]
          ELSE [server EXCEPT !.page = out.page, !.queued = out.queued]

\* a browser opens the app: the main script is queued
SessionInit ==
    /\ df = Catalog
    /\ EmptyDb
    /\ session_state = <<>>
    /\ sessions = <<>>
    /\ server = [page |-> "app.py", queued |-> TRUE,
                 load_data_cached |-> FALSE, similarity_builds |-> 0]
    /\ call = NoCall
    /\ ret = Ok(<<>>)

Idle(page) == ~server.queued /\ server.page = page
Due(page) == server.queued /\ server.page = page

\* the queued run of each script
RunApp ==
    /\ Due("app.py")
    /\ call' = [op |-> "app.main", widget |-> "none"]
    /\ ret' = Ok(<<>>)
    /\ Commit(app_main(session_state, "none"))
    /\ UNCHANGED <<df, sessions, sqlite_sequence, dbvars>>

RunHome ==
    /\ Due(Home)
    /\ call' = [op |-> "Home.main", widget |-> "none"]
    /\ ret' = Ok(<<>>)
    /\ Commit(home_main(session_state, "none", "", ""))
    /\ UNCHANGED <<df, sessions, sqlite_sequence, dbvars>>

RunRecommendations ==
    /\ Due(Recommendations)
    /\ call' = [op |-> "Recommendations.main", widget |-> "none"]
    /\ ret' = Ok(<<>>)
    /\ CommitRecommendations(recommendations_main(session_state, "none", NoSelection))
    /\ UNCHANGED <<df, sessions, sqlite_sequence, dbvars>>

RunAnalytics ==
    /\ Due(Analytics)
    /\ call' = [op |-> "Analytics.main", widget |-> "none"]
    /\ ret' = Ok(<<>>)
    /\ Commit(login_guard(session_state, Analytics))
    /\ UNCHANGED <<df, sessions, sqlite_sequence, dbvars>>

RunSettings ==
    /\ Due(Settings)
    /\ call' = [op |-> "Settings.main", widget |-> "none"]
    /\ ret' = Ok(<<>>)
    /\ Commit(settings_main(session_state, "none"))
    /\ UNCHANGED <<df, sessions, sqlite_sequence, dbvars>>

RunQueued ==
    RunApp \/ RunHome \/ RunRecommendations \/ RunAnalytics \/ RunSettings

\* the user picks a page in the sidebar of the rendered page
Navigate ==
    \E page \in Pages :
        /\ ~server.queued
        /\ page # server.page
        /\ page = Recommendations => server.similarity_builds < MaxBuilds
        /\ call' = [op |-> "navigate", page |-> page]
        /\ ret' = Ok(<<>>)
        /\ server' = [server EXCEPT !.page = page, !.queued = TRUE]
        /\ UNCHANGED <<df, sessions, sqlite_sequence, dbvars, session_state>>

\* the buttons the Home page rendered
HomeButtons ==
    IF DictGet(session_state, "logged_in", FALSE)
    THEN {"go_to_recommendations", "logout"}
    ELSE IF DictGet(session_state, "show_login", FALSE) THEN {"back_to_home"}
    ELSE {"login_register"}

ClickHome ==
    \E widget \in HomeButtons :
        /\ Idle(Home)
        /\ widget = "go_to_recommendations" =>
              server.similarity_builds < MaxBuilds
        /\ call' = [op |-> "Home.main", widget |-> widget]
        /\ ret' = Ok(<<>>)
        /\ Commit(home_main(session_state, widget, "", ""))
        /\ UNCHANGED <<df, sessions, sqlite_sequence, dbvars>>

\* the Login form of show_auth is submitted
SubmitLogin ==
    \E email \in Emails, password \in Passwords :
        LET out == home_main(session_state, "login_form", email, password)
        IN  /\ Idle(Home)
            /\ ~DictGet(session_state, "logged_in", FALSE)
            /\ DictGet(session_state, "show_login", FALSE)
            /\ call' = [op |-> "Home.main", widget |-> "login_form",
                        email |-> email, password |-> password]
            /\ ret' = out.auth
            /\ Commit(out)
            /\ UNCHANGED <<df, sessions, sqlite_sequence, dbvars>>

\* the Register form of show_auth is submitted with valid fields
SubmitRegister ==
    /\ Idle(Home)
    /\ ~DictGet(session_state, "logged_in", FALSE)
    /\ DictGet(session_state, "show_login", FALSE)
    /\ add_user

\* a movie is chosen in the selectbox of the Recommendations page
SelectMovie ==
    \E title \in Titles(df) :
        /\ Idle(Recommendations)
        /\ server.similarity_builds < MaxBuilds
        /\ call' = [op |-> "Recommendations.main", widget |-> "movie_select",
                    title |-> title]
        /\ ret' = Ok(<<>>)
        /\ CommitRecommendations(
               recommendations_main(session_state, "movie_select", title))
        /\ UNCHANGED <<df, sessions, sqlite_sequence, dbvars>>

\* 'Add to Watch History' of a recommendation shown
ClickWatch ==
    \E movie_id \in Titles(df) :
        /\ Idle(Recommendations)
        /\ server.similarity_builds + 1 < MaxBuilds
        /\ DictGet(session_state, "last_selection", NoSelection)
              \notin {NoSelection, movie_id}
        /\ Len(watch_history) + Len(ratings) < MaxRows
        /\ call' = [op |-> "Recommendations.main", widget |-> "watch",
                    title |-> movie_id]
        /\ ret' = Ok(<<>>)
        /\ watch_history' =
              Append(watch_history, [user_id |-> session_state.user_id,
                                     movie_id |-> movie_id])
        /\ CommitRecommendations(
               recommendations_main(session_state, "watch", movie_id))
        /\ UNCHANGED <<df, sessions, sqlite_sequence, users, ratings>>

\* 'Submit Rating' of a recommendation shown, with the slider's value
ClickSubmitRating ==
    \E movie_id \in Titles(df), rating \in RatingValues :
        LET user_id == session_state.user_id
            hit == {k \in 1..Len(ratings) :
                       ratings[k].user_id = user_id /\ ratings[k].movie_id = movie_id}
        IN  /\ Idle(Recommendations)
            /\ server.similarity_builds + 1 < MaxBuilds
            /\ DictGet(session_state, "last_selection", NoSelection)
                  \notin {NoSelection, movie_id}
            /\ hit = {} => Len(watch_history) + Len(ratings) < MaxRows
            /\ call' = [op |-> "Recommendations.main", widget |-> "submit",
                        title |-> movie_id, rating |-> rating]
            /\ ret' = Ok(<<>>)
            /\ ratings' =
                  IF hit = {}
                  THEN Append(ratings, [user_id |-> user_id, movie_id |-> movie_id,
                                        rating |-> rating])
                  ELSE [k \in 1..Len(ratings) |->
                           IF k \in hit THEN [ratings[k] EXCEPT !.rating = rating]
                           ELSE ratings[k]]
            /\ CommitRecommendations(
                   recommendations_main(session_state, "submit", movie_id))
            /\ UNCHANGED <<df, sessions, sqlite_sequence, users, watch_history>>

\* the Delete Account button of the Settings page
ClickDeleteAccount ==
    /\ Idle(Settings)
    /\ call' = [op |-> "Settings.main", widget |-> "delete_account"]
    /\ ret' = Ok(<<>>)
    /\ Commit(settings_main(session_state, "delete_account"))
    /\ UNCHANGED <<df, sessions, sqlite_sequence, dbvars>>

SessionNext ==
    \/ RunApp
    \/ RunHome
    \/ RunRecommendations
    \/ RunAnalytics
    \/ RunSettings
    \/ Navigate
    \/ ClickHome
    \/ SubmitLogin
    \/ SubmitRegister
    \/ SelectMovie
    \/ ClickWatch
    \/ ClickSubmitRating
    \/ ClickDeleteAccount

SpecSession == SessionInit /\ [][SessionNext]_vars

\* the server runs every script it has queued
FairSpecSession == SpecSession /\ WF_vars(RunQueued)

---------------------------------------------------------------------------
(* Claims about the pages (checked under SpecSession and FairSpecSession) *)

\* C16: across any sequence of page runs (reruns, selection changes, button
\* clicks) in a process the similarity model is built at most once:
\* compute_similarity runs on the first use and later runs reuse the result.
C16_SimilarityBuiltOnce == server.similarity_builds <= 1

LoggedIn == DictGet(session_state, "logged_in", FALSE)

\* the run of the Home page in which the Logout button was clicked
LogoutClicked ==
    call.op = "Home.main" /\ call.widget = "logout"

\* C19: after the Logout button of the Home page is clicked while logged in,
\* the session reaches logged_in = false and the page run completes: the
\* page is rendered and no further rerun is queued.
C19_LogoutCompletes ==
    LogoutClicked ~> (~LoggedIn /\ ~server.queued)

\* the part of C19 that the code meets: after the click the session reaches
\* logged_in = false
LogoutClearsLogin == LogoutClicked ~> ~LoggedIn

\* why no run completes: a queued run of the Home page that finds
\* logout_requested set ends in st.rerun() and leaves the flag set
RerunAfterLogoutQueuesAnother ==
    (Due(Home) /\ DictGet(session_state, "logout_requested", FALSE)) =>
        LET out == home_main(session_state, "none", "", "")
        IN  /\ out.queued
            /\ out.page = Home
            /\ DictGet(out.session_state, "logout_requested", FALSE)

\* logged_in is true iff user_id is not None
LoggedInIffUserId ==
    LoggedIn <=> DictGet(session_state, "user_id", NoUser) # NoUser

\* a step that puts a user id in the session is a login whose
\* authenticate_user call succeeded and returned that id
UserIdFromAuthenticate ==
    (/\ DictGet(session_state', "user_id", NoUser) # NoUser
     /\ DictGet(session_state', "user_id", NoUser)
           # DictGet(session_state, "user_id", NoUser)) =>
        /\ call'.op = "Home.main"
        /\ call'.widget = "login_form"
        /\ ret' = authenticate_user(call'.email, hash_password(call'.password))
        /\ ret'.success
        /\ ret'.result = session_state'.user_id

\* C20: in every reachable session state, across login attempts, logouts
\* and account deletion, logged_in is true iff user_id is not None, and
\* user_id was returned by a successful authenticate_user call.
C20_LoggedInIffAuthenticated ==
    /\ []LoggedInIffUserId
    /\ [][UserIdFromAuthenticate]_vars

\* the second registered user is logged in and has clicked Delete Account
C20_Witness ==
    /\ call.op = "Settings.main"
    /\ call.widget = "delete_account"
    /\ LoggedIn
    /\ session_state.user_id = 2

---------------------------------------------------------------------------
(* The profile form of the Settings page (pages/4_Settings.py, tab        *)
(* Profile), submitted by concurrent sessions.  Each script run has its   *)
(* own thread and connection, so the two SELECTs of a submission and its  *)
(* UPDATE are separate steps that other sessions' statements interleave.  *)

SessionIds == {"s1", "s2"}

\* accounts ever registered in a run of the profile form's model
MaxAccounts == 2

\* what the form's text inputs are filled with: the value shown (the
\* user's own), a name no account registers with, or the name the second
\* account registers with
Usernames(user_id) == {users[user_id].username, "cat", "bob"}
ProfileEmails(user_id) == {users[user_id].email, "cat@x.io"}
NewPasswords == {"", "secret"}

\* a session that is logged out and submits nothing
IdleSession == [user_id |-> NoUser, pc |-> "idle", updates |-> EmptyDict,
                cursor |-> FALSE]

\* SELECT id FROM users WHERE username = ? AND id != ?
username_taken(username, user_id) ==
    \E u \in UserIds : u # user_id /\ users[u].username = username

\* SELECT id FROM users WHERE email = ? AND id != ?
email_taken(email, user_id) ==
    \E u \in UserIds : u # user_id /\ users[u].email = email

\* lines 42-68: the dict `updates` and whether the local `cursor`, assigned
\* only in the username branch, is bound; reading it unbound at line 58
\* raises UnboundLocalError
profile_changes(user_id, new_username, new_email, new_password) ==
    LET user == get_user(user_id)
        username_changed == new_username # user.username
        email_changed    == new_email # user.email
        u1 == IF username_changed /\ ~username_taken(new_username, user_id)
              THEN Put(EmptyDict, "username", new_username) ELSE EmptyDict
        u2 == IF email_changed /\ ~email_taken(new_email, user_id)
              THEN Put(u1, "email", new_email) ELSE u1
        u3 == IF new_password # ""
              THEN Put(u2, "password", hash_password(new_password)) ELSE u2
    IN  IF email_changed /\ ~username_changed
        THEN [raised |-> "UnboundLocalError", updates |-> EmptyDict,
              cursor |-> FALSE]
        ELSE [raised |-> "none", updates |-> u3, cursor |-> username_changed]

\* the row with the columns of `updates` set
Updated(row, updates) ==
    [c \in DOMAIN row |-> IF c \in DOMAIN updates THEN updates[c] ELSE row[c]]

\* UPDATE users SET ... WHERE id = ? on a table without UNIQUE columns
update_users_unchecked(user_id, updates) ==
    IF user_id \notin UserIds
    THEN [raised |-> "none", users |-> users]
    ELSE [raised |-> "none",
          users |-> [users EXCEPT ![user_id] = Updated(@, updates)]]

\* UPDATE users SET ... WHERE id = ?: UNIQUE(username) and UNIQUE(email)
\* reject the statement with IntegrityError; no row with that id, no change
update_users(user_id, updates) ==
    IF user_id \notin UserIds
    THEN [raised |-> "none", users |-> users]
    ELSE IF \/ HasKey(updates, "username")
               /\ username_taken(updates.username, user_id)
            \/ HasKey(updates, "email") /\ email_taken(updates.email, user_id)
         THEN [raised |-> "IntegrityError", users |-> users]
         ELSE [raised |-> "none",
               users |-> [users EXCEPT ![user_id] = Updated(@, updates)]]

ProfileInit ==
    /\ df = Catalog
    /\ EmptyDb
    /\ session_state = <<>>
    /\ server = [page |-> "app.py", queued |-> FALSE,
                 load_data_cached |-> FALSE, similarity_builds |-> 0]
    /\ sessions = [s \in SessionIds |-> IdleSession]
    /\ call = NoCall
    /\ ret = Ok(<<>>)

\* a session registers an account
ProfileRegister ==
    /\ sqlite_sequence < MaxAccounts
    /\ add_user

\* a session logs in with the credentials of an account
ProfileLogin ==
    \E s \in SessionIds, user_data \in Accounts :
        LET auth == authenticate_user(user_data.email, user_data.password)
        IN  /\ sessions[s].user_id = NoUser
            /\ auth.success
            /\ call' = [op |-> "Home.login_form", session |-> s]
            /\ ret' = Ok(<<>>)
            /\ sessions' = [sessions EXCEPT ![s].user_id = auth.result]
            /\ UNCHANGED <<df, dbvars, sqlite_sequence, session_state, server>>

\* Save Changes is pressed: lines 14 and 42-68
SubmitProfile ==
    \E s \in {x \in SessionIds : sessions[x].user_id \in UserIds} :
    \E new_username \in Usernames(sessions[s].user_id),
       new_email \in ProfileEmails(sessions[s].user_id),
       new_password \in NewPasswords :
        LET user_id == sessions[s].user_id
            out == profile_changes(user_id, new_username, new_email, new_password)
        IN  /\ sessions[s].pc = "idle"
            /\ call' = [op |-> "Settings.profile_form", session |-> s,
                        new_username |-> new_username, new_email |-> new_email,
                        new_password |-> new_password]
            /\ ret' = IF out.raised = "none" THEN Ok(<<>>) ELSE Raised(out.raised)
            /\ sessions' =
                  [sessions EXCEPT ![s] =
                      IF out.raised = "none" /\ out.updates # EmptyDict
                      THEN [@ EXCEPT !.pc = "update", !.updates = out.updates,
                                     !.cursor = out.cursor]
                      ELSE @]
            /\ UNCHANGED <<df, dbvars, sqlite_sequence, session_state, server>>

\* lines 70-82: the UPDATE inside try/except Exception; with `cursor`
\* unbound the except branch reports the failure and nothing is written
ExecuteUpdate ==
    \E s \in SessionIds :
        LET out == IF sessions[s].cursor
                   THEN update_users(sessions[s].user_id, sessions[s].updates)
                   ELSE [raised |-> "UnboundLocalError", users |-> users]
        IN  /\ sessions[s].pc = "update"
            /\ call' = [op |-> "Settings.profile_update", session |-> s,
                        updates |-> sessions[s].updates]
            /\ ret' = IF out.raised = "none" THEN Ok(<<>>) ELSE Raised(out.raised)
            /\ users' = out.users
            /\ sessions' = [sessions EXCEPT ![s].pc = "idle",
                                            ![s].updates = EmptyDict,
                                            ![s].cursor = FALSE]
            /\ UNCHANGED <<df, watch_history, ratings, sqlite_sequence,
                           session_state, server>>

ProfileNext ==
    \/ ProfileRegister
    \/ ProfileLogin
    \/ SubmitProfile
    \/ ExecuteUpdate

SpecProfile == ProfileInit /\ [][ProfileNext]_vars

---------------------------------------------------------------------------
(* Claims about the profile form (checked under SpecProfile) *)

\* the changes a submission asks for: the fields that differ from the
\* user's row, the password as its digest
RequestedChanges(row, form) ==
    LET c1 == IF form.new_username # row.username
              THEN Put(EmptyDict, "username", form.new_username) ELSE EmptyDict
        c2 == IF form.new_email # row.email
              THEN Put(c1, "email", form.new_email) ELSE c1
    IN  IF form.new_password # ""
        THEN Put(c2, "password", hash_password(form.new_password)) ELSE c2

\* a submission with a non-empty set of changes whose new username and
\* email no other user has raises nothing and goes on to write exactly
\* those changes
FormAccepted ==
    call.op = "Settings.profile_form" =>
        LET user_id == sessions[call.session].user_id
            changes == RequestedChanges(users[user_id], call)
        IN  (/\ changes # EmptyDict
             /\ ~username_taken(call.new_username, user_id)
             /\ ~email_taken(call.new_email, user_id)) =>
                /\ ret.raised = "none"
                /\ sessions[call.session].pc = "update"
                /\ sessions[call.session].updates = changes

\* the write of a submission whose new values no other user has stores them
\* in the user's row, changes no other row and reports no failure
UpdateStored ==
    (call'.op = "Settings.profile_update") =>
        LET user_id == sessions[call'.session].user_id
            updates == call'.updates
        IN  (/\ HasKey(updates, "username") =>
                    ~username_taken(updates.username, user_id)
             /\ HasKey(updates, "email") => ~email_taken(updates.email, user_id)) =>
                /\ ret'.raised = "none"
                /\ users' = [users EXCEPT ![user_id] = Updated(@, updates)]

\* C21: submitting the profile form with any non-empty set of changes among
\* username, email and password, the new username and email not used by
\* another user, updates the user's row with exactly those changes; a
\* submission that changes only the password, or only the email, stores the
\* new value without an error.
C21_ProfileChangesStored ==
    /\ []FormAccepted
    /\ [][UpdateStored]_vars

\* what the form does do: a submission that changes the username, with or
\* without other fields, is written as asked
UsernameChangeStored ==
    /\ [](call.op = "Settings.profile_form" =>
            LET user_id == sessions[call.session].user_id
                changes == RequestedChanges(users[user_id], call)
            IN  (/\ HasKey(changes, "username")
                 /\ ~username_taken(call.new_username, user_id)
                 /\ ~email_taken(call.new_email, user_id)) =>
                    /\ ret.raised = "none"
                    /\ sessions[call.session].updates = changes)
    /\ [][(call'.op = "Settings.profile_update"
             /\ HasKey(call'.updates, "username")) => UpdateStored]_vars

\* C22: after any interleaving of add_user calls and profile updates of
\* concurrent sessions no two rows of the users table share a username and
\* no two rows share an email.
C22_UniqueUsernameAndEmail ==
    \A u, v \in UserIds :
        u # v => /\ users[u].username # users[v].username
                 /\ users[u].email # users[v].email

\* a submission passed the form's availability checks and its UPDATE was
\* rejected: another session took the value in between
C22_Witness ==
    /\ call.op = "Settings.profile_update"
    /\ ret.raised = "IntegrityError"
    /\ Cardinality(UserIds) = 2

---------------------------------------------------------------------------
(* Account deletion (utils/database.py, delete_user_data) beside sessions *)
(* that still hold the deleted user's id in st.session_state.user_id      *)

\* DELETE FROM users WHERE id = ?; DELETE FROM watch_history WHERE
\* user_id = ?; DELETE FROM ratings WHERE user_id = ?; one commit
delete_user_data(user_id) ==
    /\ users' = [u \in UserIds \ {user_id} |-> users[u]]
    /\ watch_history' = SelectSeq(watch_history, LAMBDA row : row.user_id # user_id)
    /\ ratings' = SelectSeq(ratings, LAMBDA row : row.user_id # user_id)

\* Settings, Confirm Account Deletion: the store call and the reset of the
\* session that made it
DeleteAccount ==
    \E s \in SessionIds :
        /\ sessions[s].user_id # NoUser
        /\ call' = [op |-> "delete_user_data", session |-> s,
                    user_id |-> sessions[s].user_id]
        /\ ret' = Ok(<<>>)
        /\ delete_user_data(sessions[s].user_id)
        /\ sessions' = [sessions EXCEPT ![s].user_id = NoUser]
        /\ UNCHANGED <<df, sqlite_sequence, session_state, server>>

\* Recommendations, Add to Watch History: the page checks logged_in only and
\* passes the id the session holds; the FOREIGN KEY clause of the table is
\* not enforced, no connection sets PRAGMA foreign_keys
SessionWatch ==
    \E s \in SessionIds, movie_id \in Titles(df) :
        /\ sessions[s].user_id # NoUser
        /\ Len(watch_history) + Len(ratings) < MaxRows
        /\ call' = [op |-> "add_to_watch_history", session |-> s,
                    user_id |-> sessions[s].user_id, movie_id |-> movie_id]
        /\ ret' = Ok(<<>>)
        /\ watch_history' =
              Append(watch_history, [user_id |-> sessions[s].user_id,
                                     movie_id |-> movie_id])
        /\ UNCHANGED <<df, users, ratings, sqlite_sequence, webvars>>

\* Recommendations, Submit Rating, likewise
SessionRate ==
    \E s \in SessionIds, movie_id \in Titles(df), rating \in RatingValues :
        LET user_id == sessions[s].user_id
            hit == {k \in 1..Len(ratings) :
                       ratings[k].user_id = user_id /\ ratings[k].movie_id = movie_id}
        IN  /\ user_id # NoUser
            /\ hit = {} => Len(watch_history) + Len(ratings) < MaxRows
            /\ call' = [op |-> "add_rating", session |-> s, user_id |-> user_id,
                        movie_id |-> movie_id, rating |-> rating]
            /\ ret' = Ok(<<>>)
            /\ ratings' =
                  IF hit = {}
                  THEN Append(ratings, [user_id |-> user_id, movie_id |-> movie_id,
                                        rating |-> rating])
                  ELSE [k \in 1..Len(ratings) |->
                           IF k \in hit THEN [ratings[k] EXCEPT !.rating = rating]
                           ELSE ratings[k]]
            /\ UNCHANGED <<df, users, watch_history, sqlite_sequence, webvars>>

DeleteNext ==
    \/ ProfileRegister
    \/ ProfileLogin
    \/ DeleteAccount
    \/ SessionWatch
    \/ SessionRate

SpecDelete == ProfileInit /\ [][DeleteNext]_vars

---------------------------------------------------------------------------
(* Claims about account deletion (checked under SpecDelete) *)

\* C23: in every reachable database state every watch_history row and every
\* ratings row references an existing user: after delete_user_data(u) no
\* later add_to_watch_history or add_rating, one issued by another session
\* still holding u included, leaves a row for the deleted user.
C23_RowsReferenceExistingUsers ==
    /\ \A k \in 1..Len(watch_history) : watch_history[k].user_id \in UserIds
    /\ \A k \in 1..Len(ratings) : ratings[k].user_id \in UserIds

\* the first half of C23 alone: delete_user_data(u) removes the user row and
\* every watch_history and ratings row of u
DeleteRemovesEveryRow ==
    call.op = "delete_user_data" =>
        /\ call.user_id \notin UserIds
        /\ \A k \in 1..Len(watch_history) : watch_history[k].user_id # call.user_id
        /\ \A k \in 1..Len(ratings) : ratings[k].user_id # call.user_id

=============================================================================
